---- MODULE Spec2Model ----
(***************************************************************************)
(* vpa-operator: the reconciliation loop that keeps one VerticalPod-       *)
(* Autoscaler (VPA) per workload controller.                               *)
(*                                                                         *)
(*   Spec         main/createVPAs/createVPA of src/unnamed/part_000        *)
(*   SpecMain     the loop of src/main.go (Deployments only)               *)
(*   SpecHealthy  Spec on a cluster whose API calls do not fail, with the  *)
(*                fairness of main's endless loop                          *)
(*   SpecAuto     Spec on a cluster whose VPAs were made by others in      *)
(*                update mode Auto                                         *)
(*   SpecThird    Spec with third parties that create workloads and VPAs   *)
(*                while the process sleeps or runs a cycle                 *)
(*                                                                         *)
(* The cluster (the API server's objects) is the only shared state.  A     *)
(* VPA's Spec.TargetRef is a Go pointer: it is modelled as a sequence of   *)
(* length 0 (nil) or 1 (the reference), so reading through it has to be    *)
(* guarded exactly where the Go code would panic.  Whether the API server  *)
(* refuses a VPA without targetRef depends on the CRD installed in the     *)
(* cluster, which is not part of this repository; the client type admits   *)
(* nil, so listed VPAs may carry it.                                       *)
(***************************************************************************)
EXTENDS Integers, Sequences, FiniteSets, TLC

\* ------------------------------------------------------------------ bounds
\* Largest number of workloads / VPAs the cluster holds before the process
\* starts, and the size up to which third parties add objects.
MaxWorkloads == 2
MaxVPAs == 2

\* ---------------------------------------------------------------- universe
\* Object names are sequences of characters, so that strings.HasPrefix is
\* computed and not assumed.
Goldilocks == <<"g", "o", "l", "d", "i", "l", "o", "c", "k", "s">>
NameApi == <<"a", "p", "i">>
NameGold == Goldilocks \o <<"-", "x">>
\* Names and namespaces in the order a List call returns them (by key).
NameOrder == <<NameApi, NameGold>>
NamespaceOrder == <<"default", "ns">>
\* The (namespace, name) pairs objects of the cluster may carry: one name in
\* two namespaces, and two names in one namespace.
ObjectIds == {<<"default", NameApi>>, <<"default", NameGold>>, <<"ns", NameApi>>}
Kinds == {"Deployment", "StatefulSet", "DaemonSet"}

\* *autoscalingv1.CrossVersionObjectReference: <<>> is the nil pointer.
Ref(apiVersion, kind, name) ==
  <<[apiVersion |-> apiVersion, kind |-> kind, name |-> name]>>
NilRef == <<>>

\* The workloads a cluster can hold: (kind, name, namespace) is the identity.
Workloads ==
  {[kind |-> k, name |-> id[2], namespace |-> id[1]] : k \in Kinds, id \in ObjectIds}
\* Target kinds a VPA made by someone else may carry: the three kinds, the
\* empty string and (NilRef) no reference at all.
ForeignKinds == Kinds \cup {""}
ForeignRefs(name) == {NilRef} \cup {Ref("apps/v1", k, name) : k \in ForeignKinds}
UpdateModes == {"Off"}

Id(o) == <<o.namespace, o.name>>

\* ------------------------------------------------------------------- state
VARIABLES
  clusterWorkloads,  \* the Deployments, StatefulSets and DaemonSets of the cluster
  clusterVPAs,       \* the VerticalPodAutoscalers of the cluster
  pc,                \* position of the process
  vpas,              \* createVPAs: vpas.Items
  deployments,       \* createVPAs: deployments.Items
  statefulSets,      \* createVPAs: statefulSets.Items
  daemonSets,        \* createVPAs: daemonSets.Items
  i,                 \* index of the running range loop
  err,               \* what the cycle returned ("" is nil)
  createCalls,       \* the Create calls of the current cycle, in order
  deleteCalls,       \* the Delete calls of the current cycle, in order
  failedLists,       \* the kinds whose List call failed in the current cycle
  stable,            \* no third party changed the cluster since the cycle started
  prev,              \* summary of the cycle before the current one
  late               \* what third parties created since the cycle's first List call

vars == <<clusterWorkloads, clusterVPAs, pc, vpas, deployments, statefulSets,
          daemonSets, i, err, createCalls, deleteCalls, failedLists, stable, prev,
          late>>

\* --------------------------------------------------------- pure functions
\* strings.HasPrefix(s, prefix)
HasPrefix(s, prefix) ==
  Len(s) >= Len(prefix) /\ SubSeq(s, 1, Len(prefix)) = prefix

\* Position of x in the listing order seq.
Rank(seq, x) == CHOOSE n \in 1..Len(seq) : seq[n] = x
\* a is listed before b: by namespace, then by name.
Before(a, b) ==
  \/ Rank(NamespaceOrder, a.namespace) < Rank(NamespaceOrder, b.namespace)
  \/ /\ a.namespace = b.namespace
     /\ Rank(NameOrder, a.name) < Rank(NameOrder, b.name)

\* The Items of a List("") call over the objects S (one kind, all namespaces).
RECURSIVE Items(_)
Items(S) ==
  IF S = {} THEN <<>>
  ELSE LET first == CHOOSE x \in S : \A y \in S \ {x} : Before(x, y)
       IN  <<first>> \o Items(S \ {first})

OfKind(kind) == {w \in clusterWorkloads : w.kind = kind}

\* HasVPA with the namespace comparison left out.
HasVPAByName(target, items) ==
  \E j \in 1..Len(items) : target.name = items[j].name

\* HasVPA with the kind of the VPA's target compared as well.
HasVPAOfKind(target, items) ==
  \E j \in 1..Len(items) :
    /\ target.name = items[j].name /\ target.namespace = items[j].namespace
    /\ items[j].targetRef # NilRef /\ items[j].targetRef[1].kind = target.kind

\* createVPA, the guard: a VPA of the target's name and namespace is listed.
HasVPA(target, items) ==
  \E j \in 1..Len(items) :
    target.name = items[j].name /\ target.namespace = items[j].namespace

\* NewVPA with the kind of the first call site pasted in place of the parameter.
NewVPAKindPasted(target, apiVersion, kind) ==
  [name |-> target.name, namespace |-> target.namespace,
   targetRef |-> Ref(apiVersion, "Deployment", target.name), updateMode |-> "Off"]

\* NewVPA with the update mode left at the API's default.
NewVPAModeDefault(target, apiVersion, kind) ==
  [name |-> target.name, namespace |-> target.namespace,
   targetRef |-> Ref(apiVersion, kind, target.name), updateMode |-> "Auto"]

\* createVPA, the object o handed to Create.
NewVPA(target, apiVersion, kind) ==
  [name |-> target.name, namespace |-> target.namespace,
   targetRef |-> Ref(apiVersion, kind, target.name), updateMode |-> "Off"]

\* The delete loop's slices.ContainsFunc over one workload list. The closure
\* reads v.Spec.TargetRef.Kind only after name and namespace have matched;
\* with a nil TargetRef that read is a nil pointer dereference.
SameNamed(items, v) ==
  \E j \in 1..Len(items) :
    items[j].name = v.name /\ items[j].namespace = v.namespace
ContainsTarget(items, v, kind) ==
  IF ~SameNamed(items, v) THEN "false"
  ELSE IF v.targetRef = NilRef THEN "panic"
  ELSE IF v.targetRef[1].kind = kind THEN "true"
  ELSE "false"

\* Exempt with the prefix test replaced by a comparison of the whole name.
ExemptWholeName(v) == v.name = Goldilocks

\* The delete loop: the goldilocks exemption.
Exempt(v) == HasPrefix(v.name, Goldilocks)

\* Decide with the StatefulSet test comparing against the kind Deployment.
DecideStatefulAsDeployment(v, deps, stss, dss) ==
  LET d == ContainsTarget(deps, v, "Deployment")
      s == ContainsTarget(stss, v, "Deployment")
      n == ContainsTarget(dss, v, "DaemonSet")
  IN  IF d # "false" THEN (IF d = "true" THEN "keep" ELSE "panic")
      ELSE IF s # "false" THEN (IF s = "true" THEN "keep" ELSE "panic")
      ELSE IF n # "false" THEN (IF n = "true" THEN "keep" ELSE "panic")
      ELSE IF Exempt(v) THEN "keep"
      ELSE "delete"

\* The delete loop's decision for one listed VPA: "keep" (continue),
\* "delete" (the Delete call is made) or "panic".
Decide(v, deps, stss, dss) ==
  LET d == ContainsTarget(deps, v, "Deployment")
      s == ContainsTarget(stss, v, "StatefulSet")
      n == ContainsTarget(dss, v, "DaemonSet")
  IN  IF d # "false" THEN (IF d = "true" THEN "keep" ELSE "panic")
      ELSE IF s # "false" THEN (IF s = "true" THEN "keep" ELSE "panic")
      ELSE IF n # "false" THEN (IF n = "true" THEN "keep" ELSE "panic")
      ELSE IF Exempt(v) THEN "keep"
      ELSE "delete"

\* ------------------------------------------------------------------- Init
NoPrev ==
  [ran |-> FALSE, applied |-> FALSE, acted |-> FALSE, delNamed |-> FALSE,
   streak |-> 0, failedCreates |-> {}, failedDeletes |-> {}]
NoneLate == [workloads |-> {}, vpas |-> {}]

\* The VPA sets a cluster can hold over the identities ids.
VPASetsOver(ids) ==
  {{[name |-> id[2], namespace |-> id[1], targetRef |-> r[id], updateMode |-> m[id]]
      : id \in ids}
    : r \in {f \in [ids -> UNION {ForeignRefs(id[2]) : id \in ObjectIds}] :
               \A id \in ids : f[id] \in ForeignRefs(id[2])},
      m \in [ids -> UpdateModes]}

\* The process before main has run: nothing listed, nothing called.
InitProcess ==
  /\ pc = "start"
  /\ vpas = <<>> /\ deployments = <<>> /\ statefulSets = <<>> /\ daemonSets = <<>>
  /\ i = 1
  /\ err = ""
  /\ createCalls = <<>> /\ deleteCalls = <<>>
  /\ failedLists = {}
  /\ stable = TRUE
  /\ prev = NoPrev
  /\ late = NoneLate

Init ==
  /\ clusterWorkloads \in {W \in SUBSET Workloads : Cardinality(W) <= MaxWorkloads}
  /\ \E ids \in {I \in SUBSET ObjectIds : Cardinality(I) <= MaxVPAs} :
       clusterVPAs \in VPASetsOver(ids)
  /\ InitProcess

\* --------------------------------------------------- the API server's calls
\* Create(o): AlreadyExists when a VPA of that name and namespace exists;
\* otherwise the call is applied, or fails for another reason.
CreateOutcomes(o) ==
  IF \E v \in clusterVPAs : Id(v) = Id(o) THEN {"AlreadyExists"}
  ELSE {"created", "error"}

\* Delete(name) in a namespace: NotFound when no such VPA exists; otherwise
\* the call is applied, or fails for another reason.
DeleteOutcomes(v) ==
  IF \E c \in clusterVPAs : Id(c) = Id(v) THEN {"deleted", "error"}
  ELSE {"NotFound"}

\* ------------------------------------------------ main of part_000: startup
\* rest.InClusterConfig / NewForConfig: a failure here is os.Exit(1).
Startup ==
  /\ pc = "start"
  /\ \E ok \in BOOLEAN : pc' = IF ok THEN "listVPAs" ELSE "exit"
  /\ UNCHANGED <<clusterWorkloads, clusterVPAs, vpas, deployments, statefulSets,
                 daemonSets, i, err, createCalls, deleteCalls, failedLists,
                 stable, prev, late>>

\* ------------------------------------------------------------- createVPAs
\* Abort that logs the failed List call and goes on to the delete loop.
AbortToDeleteLoop(kind) ==
  /\ err' = kind
  /\ failedLists' = failedLists \cup {kind}
  /\ pc' = "forVPAs"

\* return fmt.Errorf("failed to fetch ..."): main logs it and sleeps.
Abort(kind) ==
  /\ err' = kind
  /\ failedLists' = failedLists \cup {kind}
  /\ pc' = "sleep"

ListVPAs ==
  /\ pc = "listVPAs"
  /\ \E ok \in BOOLEAN :
       IF ok
       THEN /\ vpas' = Items(clusterVPAs)
            /\ pc' = "listDeployments"
            /\ UNCHANGED <<err, failedLists>>
       ELSE /\ Abort("VerticalPodAutoscalers")
            /\ UNCHANGED vpas
  /\ UNCHANGED <<clusterWorkloads, clusterVPAs, deployments, statefulSets,
                 daemonSets, i, createCalls, deleteCalls, stable, prev, late>>

ListDeployments ==
  /\ pc = "listDeployments"
  /\ \E ok \in BOOLEAN :
       IF ok
       THEN /\ deployments' = Items(OfKind("Deployment"))
            /\ pc' = "forDeployments"
            /\ i' = 1
            /\ UNCHANGED <<err, failedLists>>
       ELSE /\ Abort("Deployments")
            /\ UNCHANGED <<deployments, i>>
  /\ UNCHANGED <<clusterWorkloads, clusterVPAs, vpas, statefulSets, daemonSets,
                 createCalls, deleteCalls, stable, prev, late>>

\* createVPA with Create replaced by a call that overwrites an existing VPA.
createVPAOverwrite(target, apiVersion, kind) ==
  IF HasVPA(target, vpas)
  THEN UNCHANGED <<clusterVPAs, createCalls>>
  ELSE LET o == NewVPA(target, apiVersion, kind)
       IN  /\ clusterVPAs' = {c \in clusterVPAs : Id(c) # Id(o)} \cup {o}
           /\ createCalls' = Append(createCalls, [obj |-> o, res |-> "created"])

\* createVPA(target, apiVersion, kind, vpas, vpaClient): the listed vpas are
\* the ones of the cycle's first call; a failed Create is logged and the
\* function returns normally (res is the client's empty object, never nil).
createVPA(target, apiVersion, kind) ==
  IF HasVPA(target, vpas)
  THEN UNCHANGED <<clusterVPAs, createCalls>>
  ELSE LET o == NewVPA(target, apiVersion, kind)
       IN  \E res \in CreateOutcomes(o) :
             /\ clusterVPAs' = IF res = "created" THEN clusterVPAs \cup {o}
                               ELSE clusterVPAs
             /\ createCalls' = Append(createCalls, [obj |-> o, res |-> res])

ForDeployments ==
  /\ pc = "forDeployments"
  /\ i <= Len(deployments)
  /\ createVPA(deployments[i], "apps/v1", "Deployment")
  /\ i' = i + 1
  /\ UNCHANGED <<clusterWorkloads, pc, vpas, deployments, statefulSets, daemonSets,
                 err, deleteCalls, failedLists, stable, prev, late>>

ListStatefulSets ==
  /\ pc = "forDeployments"
  /\ i > Len(deployments)
  /\ \E ok \in BOOLEAN :
       IF ok
       THEN /\ statefulSets' = Items(OfKind("StatefulSet"))
            /\ pc' = "forStatefulSets"
            /\ i' = 1
            /\ UNCHANGED <<err, failedLists>>
       ELSE /\ Abort("StatefulSets")
            /\ UNCHANGED <<statefulSets, i>>
  /\ UNCHANGED <<clusterWorkloads, clusterVPAs, vpas, deployments, daemonSets,
                 createCalls, deleteCalls, stable, prev, late>>

ForStatefulSets ==
  /\ pc = "forStatefulSets"
  /\ i <= Len(statefulSets)
  /\ createVPA(statefulSets[i], "apps/v1", "StatefulSet")
  /\ i' = i + 1
  /\ UNCHANGED <<clusterWorkloads, pc, vpas, deployments, statefulSets, daemonSets,
                 err, deleteCalls, failedLists, stable, prev, late>>

ListDaemonSets ==
  /\ pc = "forStatefulSets"
  /\ i > Len(statefulSets)
  /\ \E ok \in BOOLEAN :
       IF ok
       THEN /\ daemonSets' = Items(OfKind("DaemonSet"))
            /\ pc' = "forDaemonSets"
            /\ i' = 1
            /\ UNCHANGED <<err, failedLists>>
       ELSE /\ Abort("DaemonSets")
            /\ UNCHANGED <<daemonSets, i>>
  /\ UNCHANGED <<clusterWorkloads, clusterVPAs, vpas, deployments, statefulSets,
                 createCalls, deleteCalls, stable, prev, late>>

ForDaemonSets ==
  /\ pc = "forDaemonSets"
  /\ i <= Len(daemonSets)
  /\ createVPA(daemonSets[i], "apps/v1", "DaemonSet")
  /\ i' = i + 1
  /\ UNCHANGED <<clusterWorkloads, pc, vpas, deployments, statefulSets, daemonSets,
                 err, deleteCalls, failedLists, stable, prev, late>>

\* The range loop over vpas.Items starts.
EnterForVPAs ==
  /\ pc = "forDaemonSets"
  /\ i > Len(daemonSets)
  /\ pc' = "forVPAs"
  /\ i' = 1
  /\ UNCHANGED <<clusterWorkloads, clusterVPAs, vpas, deployments, statefulSets,
                 daemonSets, err, createCalls, deleteCalls, failedLists, stable,
                 prev, late>>

\* One iteration of the range loop over vpas.Items.  A failed Delete returns
\* the error at once; after a successful Delete the log line reads
\* v.Spec.TargetRef.Kind, a nil pointer dereference when TargetRef is nil.
ForVPAs ==
  /\ pc = "forVPAs"
  /\ i <= Len(vpas)
  /\ LET v == vpas[i]
         d == Decide(v, deployments, statefulSets, daemonSets)
     IN  CASE d = "panic" ->
                /\ pc' = "panic"
                /\ UNCHANGED <<clusterVPAs, i, err, deleteCalls>>
           [] d = "keep" ->
                /\ i' = i + 1
                /\ UNCHANGED <<clusterVPAs, pc, err, deleteCalls>>
           [] d = "delete" ->
                \E res \in DeleteOutcomes(v) :
                  /\ deleteCalls' = Append(deleteCalls,
                       [name |-> v.name, namespace |-> v.namespace, res |-> res])
                  /\ IF res = "deleted"
                     THEN /\ clusterVPAs' = {c \in clusterVPAs : Id(c) # Id(v)}
                          /\ IF v.targetRef = NilRef
                             THEN pc' = "panic" /\ i' = i
                             ELSE pc' = pc /\ i' = i + 1
                          /\ err' = err
                     ELSE /\ clusterVPAs' = clusterVPAs
                          /\ err' = "Delete"
                          /\ pc' = "sleep"
                          /\ i' = i
  /\ UNCHANGED <<clusterWorkloads, vpas, deployments, statefulSets, daemonSets,
                 createCalls, failedLists, stable, prev, late>>

\* slog.Info("completed scanning for changes"); return nil
CompleteScan ==
  /\ pc = "forVPAs"
  /\ i > Len(vpas)
  /\ err' = ""
  /\ pc' = "sleep"
  /\ UNCHANGED <<clusterWorkloads, clusterVPAs, vpas, deployments, statefulSets,
                 daemonSets, i, createCalls, deleteCalls, failedLists, stable, prev, late>>

\* ---------------------------------------------------------- main: the loop
\* The workloads the cycle listed.
Listed == {deployments[j] : j \in 1..Len(deployments)}
            \cup {statefulSets[j] : j \in 1..Len(statefulSets)}
            \cup {daemonSets[j] : j \in 1..Len(daemonSets)}

\* What the next cycle's checks need to know about the cycle that ended.
Summary ==
  [ran |-> TRUE,
   applied |-> /\ err = "" /\ failedLists = {} /\ stable
               /\ \A j \in 1..Len(createCalls) : createCalls[j].res = "created"
               /\ \A j \in 1..Len(deleteCalls) : deleteCalls[j].res = "deleted",
   acted |-> createCalls # <<>> \/ deleteCalls # <<>>,
   delNamed |-> \E j \in 1..Len(deleteCalls) :
                  /\ deleteCalls[j].res = "deleted"
                  /\ \E w \in Listed : Id(w) = Id(deleteCalls[j]),
   streak |-> IF /\ err = "" /\ failedLists = {} /\ stable
                 /\ \A j \in 1..Len(createCalls) : createCalls[j].res # "error"
                 /\ \A j \in 1..Len(deleteCalls) : deleteCalls[j].res = "deleted"
              THEN (IF prev.streak < 2 THEN prev.streak + 1 ELSE 2)
              ELSE 0,
   failedCreates |-> {createCalls[j].obj : j \in
                        {k \in 1..Len(createCalls) : createCalls[k].res # "created"}},
   failedDeletes |-> {<<deleteCalls[j].namespace, deleteCalls[j].name>> : j \in
                        {k \in 1..Len(deleteCalls) : deleteCalls[k].res # "deleted"}}]

\* time.Sleep(5 * time.Minute), then the next iteration calls createVPAs.
Tick ==
  /\ pc = "sleep"
  /\ pc' = "listVPAs"
  /\ prev' = Summary
  /\ vpas' = <<>> /\ deployments' = <<>> /\ statefulSets' = <<>> /\ daemonSets' = <<>>
  /\ i' = 1
  /\ err' = ""
  /\ createCalls' = <<>> /\ deleteCalls' = <<>>
  /\ failedLists' = {}
  /\ stable' = TRUE
  /\ late' = NoneLate
  /\ UNCHANGED <<clusterWorkloads, clusterVPAs>>

\* ------------------------------------------------------------ third parties
\* Somebody deletes a workload while the process sleeps between two cycles.
ExtDeleteWorkload ==
  /\ pc \in {"sleep", "mainSleep"}
  /\ \E w \in clusterWorkloads : clusterWorkloads' = clusterWorkloads \ {w}
  /\ stable' = FALSE
  /\ UNCHANGED <<clusterVPAs, pc, vpas, deployments, statefulSets, daemonSets, i,
                 err, createCalls, deleteCalls, failedLists, prev, late>>

Next ==
  \/ Startup
  \/ ListVPAs
  \/ ListDeployments
  \/ ForDeployments
  \/ ListStatefulSets
  \/ ForStatefulSets
  \/ ListDaemonSets
  \/ ForDaemonSets
  \/ EnterForVPAs
  \/ ForVPAs
  \/ CompleteScan
  \/ Tick
  \/ ExtDeleteWorkload

Spec == Init /\ [][Next]_vars

\* --------------------------------------------------- main of src/main.go
\* The loop of src/main.go reconciles Deployments only, matches on name and
\* namespace in both directions and has no exemption.
MainStartup ==
  /\ pc = "start"
  /\ \E ok \in BOOLEAN : pc' = IF ok THEN "mainListVPAs" ELSE "exit"
  /\ UNCHANGED <<clusterWorkloads, clusterVPAs, vpas, deployments, statefulSets,
                 daemonSets, i, err, createCalls, deleteCalls, failedLists,
                 stable, prev, late>>

\* slog.Error(...); time.Sleep(5*time.Minute); continue
MainSkip(kind) ==
  /\ err' = kind
  /\ failedLists' = failedLists \cup {kind}
  /\ pc' = "mainSleep"

MainListVPAs ==
  /\ pc = "mainListVPAs"
  /\ \E ok \in BOOLEAN :
       IF ok
       THEN /\ vpas' = Items(clusterVPAs)
            /\ pc' = "mainListDeployments"
            /\ UNCHANGED <<err, failedLists>>
       ELSE /\ MainSkip("VerticalPodAutoscalers")
            /\ UNCHANGED vpas
  /\ UNCHANGED <<clusterWorkloads, clusterVPAs, deployments, statefulSets,
                 daemonSets, i, createCalls, deleteCalls, stable, prev, late>>

MainListDeployments ==
  /\ pc = "mainListDeployments"
  /\ \E ok \in BOOLEAN :
       IF ok
       THEN /\ deployments' = Items(OfKind("Deployment"))
            /\ pc' = "mainForDeployments"
            /\ i' = 1
            /\ UNCHANGED <<err, failedLists>>
       ELSE /\ MainSkip("Deployments")
            /\ UNCHANGED <<deployments, i>>
  /\ UNCHANGED <<clusterWorkloads, clusterVPAs, vpas, statefulSets, daemonSets,
                 createCalls, deleteCalls, stable, prev, late>>

\* One iteration of the range loop over deployments.Items.
MainForDeployments ==
  /\ pc = "mainForDeployments"
  /\ i <= Len(deployments)
  /\ LET d == deployments[i]
     IN  IF \E j \in 1..Len(vpas) :
               d.name = vpas[j].name /\ d.namespace = vpas[j].namespace
         THEN UNCHANGED <<clusterVPAs, createCalls>>
         ELSE LET o == [name |-> d.name, namespace |-> d.namespace,
                        targetRef |-> Ref("apps/v1", "Deployment", d.name),
                        updateMode |-> "Off"]
              IN  \E res \in CreateOutcomes(o) :
                    /\ clusterVPAs' = IF res = "created" THEN clusterVPAs \cup {o}
                                      ELSE clusterVPAs
                    /\ createCalls' = Append(createCalls, [obj |-> o, res |-> res])
  /\ i' = i + 1
  /\ UNCHANGED <<clusterWorkloads, pc, vpas, deployments, statefulSets, daemonSets,
                 err, deleteCalls, failedLists, stable, prev, late>>

MainEnterForVPAs ==
  /\ pc = "mainForDeployments"
  /\ i > Len(deployments)
  /\ pc' = "mainForVPAs"
  /\ i' = 1
  /\ UNCHANGED <<clusterWorkloads, clusterVPAs, vpas, deployments, statefulSets,
                 daemonSets, err, createCalls, deleteCalls, failedLists, stable,
                 prev, late>>

\* One iteration of the range loop over vpas.Items: a failed Delete is
\* log.Fatal(err), which ends the process.
MainForVPAs ==
  /\ pc = "mainForVPAs"
  /\ i <= Len(vpas)
  /\ LET v == vpas[i]
     IN  IF \E j \in 1..Len(deployments) :
               deployments[j].name = v.name /\ deployments[j].namespace = v.namespace
         THEN /\ i' = i + 1
              /\ UNCHANGED <<clusterVPAs, pc, err, deleteCalls>>
         ELSE \E res \in DeleteOutcomes(v) :
                /\ deleteCalls' = Append(deleteCalls,
                     [name |-> v.name, namespace |-> v.namespace, res |-> res])
                /\ IF res = "deleted"
                   THEN /\ clusterVPAs' = {c \in clusterVPAs : Id(c) # Id(v)}
                        /\ pc' = pc /\ i' = i + 1 /\ err' = err
                   ELSE /\ clusterVPAs' = clusterVPAs
                        /\ pc' = "fatal" /\ i' = i /\ err' = "Delete"
  /\ UNCHANGED <<clusterWorkloads, vpas, deployments, statefulSets, daemonSets,
                 createCalls, failedLists, stable, prev, late>>

\* time.Sleep(5*time.Minute) at the end of the loop body.
MainLoopEnd ==
  /\ pc = "mainForVPAs"
  /\ i > Len(vpas)
  /\ pc' = "mainSleep"
  /\ UNCHANGED <<clusterWorkloads, clusterVPAs, vpas, deployments, statefulSets,
                 daemonSets, i, err, createCalls, deleteCalls, failedLists, stable,
                 prev, late>>

\* The next iteration of for { ... }.
MainTick ==
  /\ pc = "mainSleep"
  /\ pc' = "mainListVPAs"
  /\ prev' = Summary
  /\ vpas' = <<>> /\ deployments' = <<>> /\ statefulSets' = <<>> /\ daemonSets' = <<>>
  /\ i' = 1
  /\ err' = ""
  /\ createCalls' = <<>> /\ deleteCalls' = <<>>
  /\ failedLists' = {}
  /\ stable' = TRUE
  /\ late' = NoneLate
  /\ UNCHANGED <<clusterWorkloads, clusterVPAs>>

NextMain ==
  \/ MainStartup
  \/ MainListVPAs
  \/ MainListDeployments
  \/ MainForDeployments
  \/ MainEnterForVPAs
  \/ MainForVPAs
  \/ MainLoopEnd
  \/ MainTick
  \/ ExtDeleteWorkload

SpecMain == Init /\ [][NextMain]_vars

\* ------------------------------------------- a cluster whose API is healthy
\* Every VPA of the cluster carries a target reference, no List or Delete call
\* fails, Create fails only with AlreadyExists, startup succeeds and no third
\* party touches the cluster.  The loop of main never blocks: whenever the
\* process can take a step it eventually does.
InitHealthy == Init /\ \A v \in clusterVPAs : v.targetRef # NilRef

Healthy ==
  /\ pc' # "exit"
  /\ failedLists' = {}
  /\ \A j \in 1..Len(createCalls') : createCalls'[j].res # "error"
  /\ \A j \in 1..Len(deleteCalls') : deleteCalls'[j].res = "deleted"

NextHealthy ==
  \/ Startup /\ Healthy
  \/ ListVPAs /\ Healthy
  \/ ListDeployments /\ Healthy
  \/ ForDeployments /\ Healthy
  \/ ListStatefulSets /\ Healthy
  \/ ForStatefulSets /\ Healthy
  \/ ListDaemonSets /\ Healthy
  \/ ForDaemonSets /\ Healthy
  \/ EnterForVPAs
  \/ ForVPAs /\ Healthy
  \/ CompleteScan
  \/ Tick

SpecHealthy == InitHealthy /\ [][NextHealthy]_vars /\ WF_vars(NextHealthy)

\* ------------------------------ a cluster whose VPAs were made by others
\* Every VPA the cluster holds at startup was made by somebody else in update
\* mode Auto, so a VPA in mode Off is one this process created.
WithMode(V, mode) == {[v EXCEPT !.updateMode = mode] : v \in V}

InitAuto ==
  /\ clusterWorkloads \in {W \in SUBSET Workloads : Cardinality(W) <= MaxWorkloads}
  /\ \E ids \in {I \in SUBSET ObjectIds : Cardinality(I) <= MaxVPAs} :
       clusterVPAs \in {WithMode(V, "Auto") : V \in VPASetsOver(ids)}
  /\ InitProcess

SpecAuto == InitAuto /\ [][Next]_vars

\* ------------------------------------ third parties that create objects
\* The cycle has made its first List call and has not returned yet.
InCycle ==
  pc \in {"listDeployments", "forDeployments", "forStatefulSets",
          "forDaemonSets", "forVPAs"}

\* Somebody creates a workload, while the process sleeps or in the middle of
\* a cycle; at most one object appears per cycle.
ExtCreateWorkload ==
  /\ pc = "sleep" \/ (InCycle /\ late = NoneLate)
  /\ Cardinality(clusterWorkloads) < MaxWorkloads
  /\ \E w \in Workloads \ clusterWorkloads :
       /\ clusterWorkloads' = clusterWorkloads \cup {w}
       /\ late' = IF InCycle THEN [late EXCEPT !.workloads = {w}] ELSE late
  /\ stable' = FALSE
  /\ UNCHANGED <<clusterVPAs, pc, vpas, deployments, statefulSets, daemonSets, i,
                 err, createCalls, deleteCalls, failedLists, prev>>

\* Somebody creates a VPA of a name and namespace that is free.
ExtCreateVPA ==
  /\ InCycle /\ late = NoneLate
  /\ Cardinality(clusterVPAs) < MaxVPAs
  /\ \E id \in ObjectIds \ {Id(c) : c \in clusterVPAs} :
       \E V \in VPASetsOver({id}) : \E v \in V :
         /\ clusterVPAs' = clusterVPAs \cup {v}
         /\ late' = IF InCycle THEN [late EXCEPT !.vpas = {v}] ELSE late
  /\ stable' = FALSE
  /\ UNCHANGED <<clusterWorkloads, pc, vpas, deployments, statefulSets, daemonSets,
                 i, err, createCalls, deleteCalls, failedLists, prev>>

\* The cluster at startup leaves room for what third parties will add.
InitThird ==
  /\ Init
  /\ Cardinality(clusterWorkloads) < MaxWorkloads
  /\ Cardinality(clusterVPAs) < MaxVPAs

NextThird ==
  \/ Startup
  \/ ListVPAs
  \/ ListDeployments
  \/ ForDeployments
  \/ ListStatefulSets
  \/ ForStatefulSets
  \/ ListDaemonSets
  \/ ForDaemonSets
  \/ EnterForVPAs
  \/ ForVPAs
  \/ CompleteScan
  \/ Tick
  \/ ExtCreateWorkload
  \/ ExtCreateVPA

SpecThird == InitThird /\ [][NextThird]_vars

\* ====================================================================
\* Properties
\* ====================================================================
Snapshot == {vpas[j] : j \in 1..Len(vpas)}
Called(calls) == {<<calls[j].namespace, calls[j].name>> : j \in 1..Len(calls)}
AllApplied(calls, res) == \A j \in 1..Len(calls) : calls[j].res = res

\* The four List calls of the current cycle have succeeded.
AllListsSucceeded ==
  \/ pc \in {"forVPAs", "panic"}
  \/ pc = "sleep" /\ failedLists = {}
\* The current cycle has ended: createVPAs returned, or the process panicked.
CycleOver == pc \in {"sleep", "panic"}

\* The delete rule of the specification: v is not exempt and no listed
\* workload has v's name, v's namespace and the kind v's target names.
Matched(v, W) ==
  \E w \in W :
    /\ w.name = v.name /\ w.namespace = v.namespace
    /\ v.targetRef # NilRef /\ v.targetRef[1].kind = w.kind
ShouldDelete(v) == ~HasPrefix(v.name, Goldilocks) /\ ~Matched(v, Listed)

\* The create rule of the specification: w is listed and the snapshot holds
\* no VPA of w's name and namespace.
ShouldCreate(w) ==
  w \in Listed /\ ~\E v \in Snapshot : v.name = w.name /\ v.namespace = w.namespace
CreatesFor(w) ==
  {j \in 1..Len(createCalls) :
     /\ createCalls[j].obj.name = w.name
     /\ createCalls[j].obj.namespace = w.namespace
     /\ createCalls[j].obj.targetRef = Ref("apps/v1", w.kind, w.name)}

\* C1 (as stated): after a cycle whose four List calls succeeded and whose
\* Create and Delete calls were all applied, with no third party changing the
\* cluster, the next cycle issues no Create call and no Delete call.
NextCycleIssuesNothing ==
  (prev.applied /\ stable) => (createCalls = <<>> /\ deleteCalls = <<>>)

\* C1 (amended): after such a cycle the next cycle issues no Delete call, and
\* it issues no Create call unless the first cycle deleted a VPA that carries
\* the name and namespace of a listed workload (a kind mismatch).
NextCycleQuietUnlessMismatchDeleted ==
  (prev.applied /\ stable) =>
    /\ deleteCalls = <<>>
    /\ (~prev.delNamed => createCalls = <<>>)

\* C1 witness: a second cycle has run to its end after a first one that
\* created or deleted something, all of it applied.
WitnessSecondCycleQuiet ==
  /\ prev.applied /\ prev.acted /\ ~prev.delNamed /\ stable
  /\ pc = "sleep" /\ err = "" /\ failedLists = {}
  /\ clusterWorkloads # {} /\ clusterVPAs # {}

\* C2: Delete is never called on a VPA whose name starts with goldilocks.
NeverDeleteGoldilocks ==
  \A j \in 1..Len(deleteCalls) : ~HasPrefix(deleteCalls[j].name, Goldilocks)

\* C2 witness: a completed cycle that deleted some VPA and passed over a
\* listed goldilocks VPA which no listed workload matches.
WitnessGoldilocksKept ==
  /\ pc = "sleep" /\ err = "" /\ failedLists = {}
  /\ deleteCalls # <<>>
  /\ \E v \in Snapshot :
       HasPrefix(v.name, Goldilocks) /\ ~Matched(v, Listed) /\ v \in clusterVPAs

\* C3: in a cycle whose List calls and Delete calls all succeed, Delete is
\* called on exactly the listed VPAs that are not exempt and that no listed
\* workload matches on name, namespace and target kind.
DeleteRuleExact ==
  (CycleOver /\ AllListsSucceeded /\ AllApplied(deleteCalls, "deleted")) =>
    Called(deleteCalls) = {Id(v) : v \in {u \in Snapshot : ShouldDelete(u)}}

\* C4: once the List calls of a cycle have succeeded, Create has been called
\* exactly once for each listed workload without a listed VPA of its name and
\* namespace, and for nothing else; with nothing listed nothing is called.
CreateRuleExact ==
  AllListsSucceeded =>
    /\ \A w \in Workloads :
         Cardinality(CreatesFor(w)) = IF ShouldCreate(w) THEN 1 ELSE 0
    /\ Len(createCalls) = Cardinality({w \in Workloads : ShouldCreate(w)})
    /\ (Listed = {} /\ Snapshot = {}) => (createCalls = <<>> /\ deleteCalls = <<>>)

\* C4 witness: the create loops are over; one listed workload got its Create
\* call and another has none because a VPA of its name targets another kind.
WitnessCreateRule ==
  /\ pc = "forVPAs"
  /\ createCalls # <<>>
  /\ \E w \in Listed : \E v \in Snapshot :
       /\ Id(v) = Id(w) /\ v.targetRef # NilRef /\ v.targetRef[1].kind # w.kind
       /\ CreatesFor(w) = {}

\* C5: in a cycle in which a List call fails no Create and no Delete call is
\* issued.
FailedListMeansNoCall ==
  failedLists # {} => (createCalls = <<>> /\ deleteCalls = <<>>)

\* C6: when createVPAs has returned after four successful List calls, every
\* Create and every Delete the snapshot calls for has been attempted,
\* whatever calls failed before it.
EveryActionAttempted ==
  (pc = "sleep" /\ failedLists = {}) =>
    /\ \A w \in Listed : ShouldCreate(w) => CreatesFor(w) # {}
    /\ \A v \in Snapshot : ShouldDelete(v) => Id(v) \in Called(deleteCalls)

\* C7: a failed call inside a cycle never ends the process.
NoExitOnCycleError == pc # "fatal"

\* C8: a cycle whose API calls all succeed does not crash, whatever the
\* target references of the listed VPAs are.
PlanningNeverPanics ==
  ~(/\ pc = "panic"
    /\ failedLists = {}
    /\ AllApplied(createCalls, "created")
    /\ AllApplied(deleteCalls, "deleted"))

\* C9: on a healthy cluster every workload eventually has, and keeps, a VPA
\* of its name and namespace whose target reference names its kind and name.
Covered(w) ==
  \E v \in clusterVPAs :
    /\ v.name = w.name /\ v.namespace = w.namespace
    /\ v.targetRef # NilRef
    /\ v.targetRef[1].kind = w.kind /\ v.targetRef[1].name = w.name
EveryWorkloadCovered == <>[](\A w \in clusterWorkloads : Covered(w))

\* C10: after a cycle whose List calls and Delete calls all succeeded, with
\* the workloads unchanged since it started, the cluster holds no VPA that is
\* neither exempt nor matched by a workload.
NoOrphanPersists ==
  (CycleOver /\ AllListsSucceeded /\ AllApplied(deleteCalls, "deleted") /\ stable) =>
    \A v \in clusterVPAs :
      HasPrefix(v.name, Goldilocks) \/ Matched(v, clusterWorkloads)

\* The workload the create loop is at, and the kind its call site passes.
AtCreateLoop == pc \in {"forDeployments", "forStatefulSets", "forDaemonSets"}
LoopKind ==
  IF pc = "forDeployments" THEN "Deployment"
  ELSE IF pc = "forStatefulSets" THEN "StatefulSet"
  ELSE "DaemonSet"
LoopTarget ==
  IF pc = "forDeployments" THEN deployments[i]
  ELSE IF pc = "forStatefulSets" THEN statefulSets[i]
  ELSE daemonSets[i]
CreatedIds == {Id(createCalls[j].obj) : j \in 1..Len(createCalls)}

\* C11: every Create call carries a VPA of the workload's name and namespace
\* whose target is (apps/v1, the workload's kind, the workload's name) and
\* whose update mode is Off; every VPA that appears in the cluster has mode
\* Off and a target named like itself.
ManagedShape ==
  [][/\ Len(createCalls') = Len(createCalls) + 1 =>
          /\ AtCreateLoop
          /\ LoopTarget.kind = LoopKind
          /\ createCalls'[Len(createCalls')].obj =
               [name |-> LoopTarget.name, namespace |-> LoopTarget.namespace,
                targetRef |-> Ref("apps/v1", LoopTarget.kind, LoopTarget.name),
                updateMode |-> "Off"]
     /\ \A v \in clusterVPAs' \ clusterVPAs :
          /\ v.updateMode = "Off"
          /\ v.targetRef # NilRef /\ v.targetRef[1].name = v.name
    ]_vars

\* C11 witness: the create loops are over; a VPA made for a DaemonSet or a
\* StatefulSet is in the cluster next to a VPA somebody else made.
WitnessManagedShape ==
  /\ pc = "forVPAs"
  /\ \E j \in 1..Len(createCalls) :
       /\ createCalls[j].res = "created"
       /\ createCalls[j].obj \in clusterVPAs
       /\ createCalls[j].obj.targetRef[1].kind # "Deployment"
  /\ \E v \in clusterVPAs : v.updateMode = "Auto"

\* C12: a workload or a VPA that a third party creates after the first List
\* call of a cycle is not among the objects the cycle decides from, and no
\* Create call of the cycle is made for such a workload.
LateObjectsUnseen ==
  /\ late.workloads \cap Listed = {}
  /\ late.vpas \cap Snapshot = {}
  /\ \A w \in late.workloads : CreatesFor(w) = {}

\* Every call of the cycle other than the ones for id was applied.
OthersApplied(id) ==
  /\ \A j \in 1..Len(createCalls) :
       Id(createCalls[j].obj) = id \/ createCalls[j].res = "created"
  /\ \A j \in 1..Len(deleteCalls) :
       Id(deleteCalls[j]) = id \/ deleteCalls[j].res = "deleted"

\* C13: when a cycle has ended after four successful List calls, a Create
\* that failed in the cycle before has been called again if its workload is
\* listed without a listed VPA of its name, and a Delete that failed in the
\* cycle before has been called again if its VPA is listed without a
\* kind-matching workload, provided no other call of the cycle failed.
FailedActionRetried ==
  (prev.ran /\ CycleOver /\ AllListsSucceeded) =>
    /\ \A w \in Listed :
         (/\ NewVPA(w, "apps/v1", w.kind) \in prev.failedCreates
          /\ ShouldCreate(w)
          /\ OthersApplied(Id(w))) => CreatesFor(w) # {}
    /\ \A v \in Snapshot :
         (/\ Id(v) \in prev.failedDeletes
          /\ ~Matched(v, Listed)
          /\ OthersApplied(Id(v))) => Id(v) \in Called(deleteCalls)

\* C14: a Delete call is issued only after the four List calls of the same
\* cycle have succeeded; a cycle with a failed List call deletes nothing.
DeleteOnlyAfterAllLists ==
  /\ deleteCalls # <<>> => AllListsSucceeded
  /\ failedLists # {} => deleteCalls = <<>>

\* C14 witness: a delete loop that has called Delete after List calls that
\* returned StatefulSets and DaemonSets.
WitnessDeleteAfterLists ==
  /\ deleteCalls # <<>>
  /\ statefulSets # <<>> /\ daemonSets # <<>>
  /\ pc = "sleep" /\ failedLists = {}

\* C15: no step of the process changes an existing object: every VPA of the
\* cluster is afterwards either gone or there exactly as it was, whatever
\* its update mode, and the workloads change only by a third party's hand.
Frame ==
  [][/\ clusterWorkloads' # clusterWorkloads => ExtDeleteWorkload
     /\ \A v \in clusterVPAs :
          v \in clusterVPAs' \/ ~\E c \in clusterVPAs' : Id(c) = Id(v)
    ]_vars

\* C15 witness: a completed cycle that created and deleted VPAs and left a
\* listed VPA of update mode Auto in the cluster.
WitnessFrame ==
  /\ pc = "sleep" /\ err = ""
  /\ createCalls # <<>> /\ deleteCalls # <<>>
  /\ \E v \in Snapshot : v.updateMode = "Auto" /\ v \in clusterVPAs

\* C16: after two consecutive cycles in which every List call and every
\* Delete call succeeded and Create failed with AlreadyExists at most, with
\* nobody else changing the cluster, the third cycle issues no call.
ConvergedAfterTwoCycles ==
  prev.streak = 2 => (createCalls = <<>> /\ deleteCalls = <<>>)

\* C16 witness: a third cycle has run to its end after two such cycles, the
\* second of which still had something to create or delete.
WitnessThirdCycleQuiet ==
  /\ prev.streak = 2 /\ prev.acted
  /\ pc = "sleep" /\ err = "" /\ failedLists = {}
  /\ clusterVPAs # {}

\* C17: no two Create calls of a cycle carry the same name and namespace,
\* and with no third party creating VPAs no Create call meets a VPA that
\* exists already.
OneCreatePerIdentity ==
  /\ \A j, k \in 1..Len(createCalls) :
       j # k => Id(createCalls[j].obj) # Id(createCalls[k].obj)
  /\ \A j \in 1..Len(createCalls) : createCalls[j].res # "AlreadyExists"

\* C18: the names passed to Create and the names passed to Delete in one
\* cycle are disjoint, and once a Delete call is made the cycle makes no
\* further Create call.
CreatesAndDeletesDisjoint ==
  [][/\ CreatedIds' \cap Called(deleteCalls') = {}
     /\ deleteCalls # <<>> =>
          \/ createCalls' = createCalls
          \/ createCalls' = <<>> /\ deleteCalls' = <<>>
    ]_vars

\* C18 witness: a completed cycle that called both Create and Delete.
WitnessCreatesAndDeletes ==
  /\ pc = "sleep" /\ err = "" /\ failedLists = {}
  /\ createCalls # <<>> /\ deleteCalls # <<>>
  /\ \E j \in 1..Len(createCalls) : createCalls[j].res = "created"

\* C19: in a cluster whose other VPAs have update mode Auto, a cycle whose
\* List calls and Delete calls all succeeded leaves no listed VPA that this
\* process created (mode Off) and whose workload is gone.
CleansUpOwnVPAs ==
  (pc = "sleep" /\ err = "" /\ failedLists = {}
     /\ AllApplied(deleteCalls, "deleted")) =>
    \A v \in Snapshot :
      (v.updateMode = "Off" /\ ~Matched(v, Listed)) => v \notin clusterVPAs

====
